---- MODULE Spec2Model ----
(***************************************************************************)
(* Safety assessment of a guesthouse: the baseline scoring and cost        *)
(* breakdown of app/safety.py, the weather and facility analyzers of       *)
(* app/external_services.py and the get_safety_assessment handler of       *)
(* app/guesthouses.py that chains them, and the create, get, update and   *)
(* delete routes of app/guesthouses.py on the guesthouses table.           *)
(*                                                                         *)
(* Numbers.  Python ints are modelled as integers.  The unrounded final    *)
(* score is a multiple of 0.5 and is kept in halves; the reported          *)
(* round(final_score, 1) is kept in tenths.  The product                   *)
(* base_installation * building_multiplier is an IEEE-754 double; PyRound  *)
(* computes the integer Python's round() returns for it.                   *)
(* An f-string is modelled as the tuple of its literal pieces and the      *)
(* values it formats.                                                      *)
(***************************************************************************)
EXTENDS Integers, Sequences, FiniteSets, TLC

\* ------------------------------------------------------------------ bounds
MaxFloors == 4
MaxFacilities == 2
MaxTicks == 1
MaxGuesthouses == 2

\* ---------------------------------------------------------- configuration
\* an optional value is a sequence of length 0 or 1
None == << >>
Some(x) == << x >>

\* a NULL building_type column
NULL == "NULL"

\* the text an f-string substitutes for an integer
str(n) == ToString(n)

EQUIPMENT_COSTS ==
  [fire_extinguisher |-> 100, smoke_detector |-> 50, emergency_exit_sign |-> 65,
   first_aid_kit |-> 130, stair_handrail |-> 150, slip_resistant_coating |-> 250]

INSTALLATION_COSTS ==
  [fire_extinguisher |-> 20, smoke_detector |-> 15, emergency_exit_sign |-> 35,
   first_aid_kit |-> 0, stair_handrail |-> 80, slip_resistant_coating |-> 150]

COMPLIANCE_COSTS ==
  [fire_safety_inspection |-> 200, safety_certification |-> 150,
   annual_fire_inspection |-> 100]

MAINTENANCE_COSTS ==
  [fire_extinguisher |-> 15, smoke_detector |-> 8, emergency_exit_sign |-> 10,
   first_aid_kit |-> 50, stair_handrail |-> 20, slip_resistant_coating |-> 0]

OPTIONAL_IMPROVEMENTS ==
  [fire_blanket |-> 80, emergency_lighting |-> 120, carbon_monoxide_detector |-> 90,
   security_camera |-> 250, fire_alarm_system |-> 800,
   emergency_evacuation_plan |-> 150]

\* the multipliers 0.9, 1.0, 1.1 in tenths
BUILDING_TYPE_MULTIPLIERS ==
  [modern |-> 9, traditional |-> 10, renovated |-> 11]

SAFETY_THRESHOLDS ==
  [min_fire_extinguishers_per_floor |-> 1, min_smoke_detectors_per_floor |-> 2,
   min_emergency_exits |-> 2, old_building_year |-> 1990,
   nearby_hospital_radius_km |-> 5, nearby_pharmacy_radius_km |-> 2]

\* class Config: the tables current_app.config is loaded from
Config ==
  [EQUIPMENT_COSTS |-> EQUIPMENT_COSTS,
   INSTALLATION_COSTS |-> INSTALLATION_COSTS,
   COMPLIANCE_COSTS |-> COMPLIANCE_COSTS,
   MAINTENANCE_COSTS |-> MAINTENANCE_COSTS,
   OPTIONAL_IMPROVEMENTS |-> OPTIONAL_IMPROVEMENTS,
   BUILDING_TYPE_MULTIPLIERS |-> BUILDING_TYPE_MULTIPLIERS,
   SAFETY_THRESHOLDS |-> SAFETY_THRESHOLDS]

\* current_app.config: one mutable mapping shared by every request
VARIABLE config

\* SafetyAssessment.__init__: the tables an assessment reads
thresholds == config.SAFETY_THRESHOLDS
equipment_costs == config.EQUIPMENT_COSTS
installation_costs == config.INSTALLATION_COSTS
compliance_costs == config.COMPLIANCE_COSTS
maintenance_costs == config.MAINTENANCE_COSTS
optional_improvements == config.OPTIONAL_IMPROVEMENTS

\* ------------------------------------------------------------ arithmetic
Max(a, b) == IF a >= b THEN a ELSE b
Min(a, b) == IF a <= b THEN a ELSE b

\* round-half-to-even of the rational n/d (n >= 0, d > 0): Python's round()
\* on a value that the double holds exactly
RoundHalfEven(n, d) ==
  LET q == n \div d
      r == n % d
  IN  IF 2 * r > d \/ (2 * r = d /\ q % 2 = 1) THEN q + 1 ELSE q

\* largest power of two not above n (n >= 1)
RECURSIVE Pow2Floor(_)
Pow2Floor(n) == IF n < 2 THEN 1 ELSE 2 * Pow2Floor(n \div 2)

\* round(base * m) for an integer base and the double m nearest to mult10/10.
\* The doubles for 0.9 and 1.1 lie above the decimals (by 0.2 * 2^-53 and
\* 0.2 * 2^-51).  The excess only matters when base * mult10 / 10 ends in .5:
\* for 1.1 the product is then rounded to a double above the tie whenever
\* 0.8 * base exceeds the power of two below the product, and round() goes up;
\* for 0.9 the excess is always under half an ulp and the tie is exact.
PyRound(base, mult10) ==
  LET n == base * mult10
      tie == (n % 10 = 5)
      above == /\ mult10 = 11
               /\ tie
               /\ 4 * base > 5 * Pow2Floor(n \div 10)
  IN  IF above THEN (n \div 10) + 1 ELSE RoundHalfEven(n, 10)

\* ------------------------------------------------------------ guesthouse
BuildingTypes == {"modern", "traditional", "renovated"}

\* SafetyAssessment.__init__: the multiplier (in tenths) of the building type;
\* an absent (NULL) or unlisted type gets 1.0
building_multiplier(g) ==
  LET building_type == IF g.building_type = NULL THEN "traditional"
                       ELSE g.building_type
  IN  IF building_type \in DOMAIN config.BUILDING_TYPE_MULTIPLIERS
      THEN config.BUILDING_TYPE_MULTIPLIERS[building_type]
      ELSE 10

\* ------------------------------------------- calculate_baseline_score
extinguisher_deficit(g) ==
  Max(0, g.number_of_floors * thresholds.min_fire_extinguishers_per_floor
         - g.fire_extinguishers)

\* mutant: a count of zero taken for "not recorded" and skipped
detector_deficit_zero_skipped(g) ==
  IF g.smoke_detectors = 0 THEN 0
  ELSE Max(0, g.number_of_floors * thresholds.min_smoke_detectors_per_floor
              - g.smoke_detectors)

detector_deficit(g) ==
  Max(0, g.number_of_floors * thresholds.min_smoke_detectors_per_floor
         - g.smoke_detectors)

\* mutant: the deficit without max(0, ...)
exit_deficit_unclamped(g) ==
  thresholds.min_emergency_exits - g.emergency_exits

exit_deficit(g) ==
  Max(0, thresholds.min_emergency_exits - g.emergency_exits)

\* mutant: one handrail run per floor
items_to_add_run_per_floor(g) ==
  [fire_extinguishers |-> extinguisher_deficit(g),
   smoke_detectors    |-> detector_deficit(g),
   emergency_exits    |-> exit_deficit(g),
   first_aid_kit      |-> ~g.has_first_aid_kit,
   handrails          |-> IF g.number_of_floors > 1 /\ ~g.has_stair_handrails
                          THEN g.number_of_floors ELSE 0,
   slip_coating       |-> g.number_of_floors > 1 /\ ~g.stairs_slip_resistant]

\* what has to be added, as tracked for the cost calculation
items_to_add(g) ==
  [fire_extinguishers |-> extinguisher_deficit(g),
   smoke_detectors    |-> detector_deficit(g),
   emergency_exits    |-> exit_deficit(g),
   first_aid_kit      |-> ~g.has_first_aid_kit,
   handrails          |-> IF g.number_of_floors > 1 /\ ~g.has_stair_handrails
                          THEN g.number_of_floors - 1 ELSE 0,
   slip_coating       |-> g.number_of_floors > 1 /\ ~g.stairs_slip_resistant]

\* mutant: the stairs checked whatever the number of floors
deducted_score_stairs_always(g) ==
  100
  - (IF g.construction_year < thresholds.old_building_year THEN 10 ELSE 0)
  - extinguisher_deficit(g) * 5
  - detector_deficit(g) * 4
  - exit_deficit(g) * 10
  - (IF ~g.has_first_aid_kit THEN 8 ELSE 0)
  - (IF ~g.has_stair_handrails THEN 8 ELSE 0)
  - (IF ~g.stairs_slip_resistant THEN 6 ELSE 0)

\* the score after all deductions, before the clamp
deducted_score(g) ==
  100
  - (IF g.construction_year < thresholds.old_building_year THEN 10 ELSE 0)
  - extinguisher_deficit(g) * 5
  - detector_deficit(g) * 4
  - exit_deficit(g) * 10
  - (IF ~g.has_first_aid_kit THEN 8 ELSE 0)
  - (IF g.number_of_floors > 1
     THEN (IF ~g.has_stair_handrails THEN 8 ELSE 0)
          + (IF ~g.stairs_slip_resistant THEN 6 ELSE 0)
     ELSE 0)

\* score = max(0, score)
clamp_score(score) == Max(0, score)

risk_level_of(score) ==
  IF score >= 80 THEN "low" ELSE IF score >= 50 THEN "medium" ELSE "high"

\* the issues in the order the checks append them; the age issue formats
\* building_age = datetime.now().year - construction_year
issues_found(g, year) ==
  (IF g.construction_year < thresholds.old_building_year
   THEN << <<"Building is", str(year - g.construction_year),
             "years old (built before", str(thresholds.old_building_year), ")">> >>
   ELSE << >>)
  \o (IF extinguisher_deficit(g) > 0
      THEN << <<"Need", str(extinguisher_deficit(g)), "more fire extinguisher(s)">> >>
      ELSE << >>)
  \o (IF detector_deficit(g) > 0
      THEN << <<"Need", str(detector_deficit(g)), "more smoke detector(s)">> >>
      ELSE << >>)
  \o (IF exit_deficit(g) > 0
      THEN << <<"Need", str(exit_deficit(g)), "more emergency exit(s)">> >>
      ELSE << >>)
  \o (IF ~g.has_first_aid_kit THEN << <<"No first aid kit available">> >> ELSE << >>)
  \o (IF g.number_of_floors > 1 /\ ~g.has_stair_handrails
      THEN << <<"Stairs lack handrails">> >> ELSE << >>)
  \o (IF g.number_of_floors > 1 /\ ~g.stairs_slip_resistant
      THEN << <<"Stairs are not slip-resistant">> >> ELSE << >>)

recommendations_made(g) ==
  (IF g.construction_year < thresholds.old_building_year
   THEN << <<"Consider professional structural inspection for older buildings">> >>
   ELSE << >>)
  \o (IF extinguisher_deficit(g) > 0
      THEN << <<"Add", str(extinguisher_deficit(g)),
                "fire extinguisher(s) (minimum one per floor)">> >>
      ELSE << >>)
  \o (IF detector_deficit(g) > 0
      THEN << <<"Install", str(detector_deficit(g)), "smoke detector(s) (minimum",
                str(thresholds.min_smoke_detectors_per_floor), "per floor)">> >>
      ELSE << >>)
  \o (IF exit_deficit(g) > 0
      THEN << <<"Add", str(exit_deficit(g)),
                "clearly marked emergency exit(s) with illuminated signs">> >>
      ELSE << >>)
  \o (IF ~g.has_first_aid_kit
      THEN << <<"Provide a well-stocked first aid kit in an accessible location">> >>
      ELSE << >>)
  \o (IF g.number_of_floors > 1 /\ ~g.has_stair_handrails
      THEN << <<"Install handrails on all staircases">> >> ELSE << >>)
  \o (IF g.number_of_floors > 1 /\ ~g.stairs_slip_resistant
      THEN << <<"Apply slip-resistant coating or install anti-slip strips on stairs">> >>
      ELSE << >>)

\* mutant: the coating priced once, whatever the handrail work
equipment_cost_flat_coating(g) ==
  LET add == items_to_add(g)
  IN  add.fire_extinguishers * equipment_costs.fire_extinguisher
      + add.smoke_detectors * equipment_costs.smoke_detector
      + add.emergency_exits * equipment_costs.emergency_exit_sign
      + (IF add.first_aid_kit THEN equipment_costs.first_aid_kit ELSE 0)
      + (IF add.handrails > 0
         THEN (add.handrails * equipment_costs.stair_handrail * 7) \div 2 ELSE 0)
      + (IF add.slip_coating THEN equipment_costs.slip_resistant_coating ELSE 0)

\* the float equipment_cost of the items to add, in halves of a dinar: a
\* handrail run is priced per metre at 3.5 m (cost * 3.5 = cost * 7 halves),
\* the coating per handrail run when handrails are added and once otherwise
equipment_cost_halves(g) ==
  LET add == items_to_add(g)
  IN  2 * add.fire_extinguishers * equipment_costs.fire_extinguisher
      + 2 * add.smoke_detectors * equipment_costs.smoke_detector
      + 2 * add.emergency_exits * equipment_costs.emergency_exit_sign
      + (IF add.first_aid_kit THEN 2 * equipment_costs.first_aid_kit ELSE 0)
      + (IF add.handrails > 0
         THEN add.handrails * equipment_costs.stair_handrail * 7 ELSE 0)
      + (IF add.slip_coating
         THEN (IF add.handrails > 0
               THEN 2 * add.handrails * equipment_costs.slip_resistant_coating
               ELSE 2 * equipment_costs.slip_resistant_coating)
         ELSE 0)

\* 'equipment': round(equipment_cost)
equipment_cost(g) == RoundHalfEven(equipment_cost_halves(g), 2)

\* installation cost before the building-type multiplier (no first aid term)
base_installation(g) ==
  LET add == items_to_add(g)
  IN  add.fire_extinguishers * installation_costs.fire_extinguisher
      + add.smoke_detectors * installation_costs.smoke_detector
      + add.emergency_exits * installation_costs.emergency_exit_sign
      + (IF add.handrails > 0
         THEN (add.handrails * installation_costs.stair_handrail * 7) \div 2 ELSE 0)
      + (IF add.slip_coating
         THEN (IF add.handrails > 0
               THEN add.handrails * installation_costs.slip_resistant_coating
               ELSE installation_costs.slip_resistant_coating)
         ELSE 0)

\* mutant: the building-type multiplier forgotten
installation_cost_unscaled(g) == base_installation(g)

\* installation_cost = round(base_installation * self.building_multiplier)
installation_cost(g) == PyRound(base_installation(g), building_multiplier(g))

\* mutant: compliance charged whenever any issue was found, the age issue too
compliance_cost_if_issues(g) ==
  IF deducted_score(g) < 100
  THEN compliance_costs.fire_safety_inspection + compliance_costs.safety_certification
  ELSE 0

\* mutant: the building-type multiplier applied to the compliance cost too
compliance_cost_by_type(g) ==
  IF equipment_cost(g) > 0
  THEN PyRound(compliance_costs.fire_safety_inspection
               + compliance_costs.safety_certification, building_multiplier(g))
  ELSE 0

compliance_cost(g) ==
  IF equipment_cost_halves(g) > 0
  THEN compliance_costs.fire_safety_inspection + compliance_costs.safety_certification
  ELSE 0

\* mutant: the annual inspection charged only when something is maintained
\* because it was added
annual_maintenance_fee_if_deficient(g) ==
  LET add == items_to_add(g)
      handrail_count == IF add.handrails > 0 THEN add.handrails
                        ELSE g.number_of_floors - 1
  IN  (g.fire_extinguishers + add.fire_extinguishers) * maintenance_costs.fire_extinguisher
      + (g.smoke_detectors + add.smoke_detectors) * maintenance_costs.smoke_detector
      + (g.emergency_exits + add.emergency_exits) * maintenance_costs.emergency_exit_sign
      + (IF g.has_first_aid_kit \/ add.first_aid_kit
         THEN maintenance_costs.first_aid_kit ELSE 0)
      + (IF g.has_stair_handrails \/ add.handrails > 0
         THEN handrail_count * maintenance_costs.stair_handrail ELSE 0)
      + (IF equipment_cost(g) > 0 THEN compliance_costs.annual_fire_inspection ELSE 0)

\* mutant: existing handrails counted per floor, not per staircase
annual_maintenance_per_floor(g) ==
  LET add == items_to_add(g)
      handrail_count == IF add.handrails > 0 THEN add.handrails
                        ELSE g.number_of_floors
  IN  (g.fire_extinguishers + add.fire_extinguishers) * maintenance_costs.fire_extinguisher
      + (g.smoke_detectors + add.smoke_detectors) * maintenance_costs.smoke_detector
      + (g.emergency_exits + add.emergency_exits) * maintenance_costs.emergency_exit_sign
      + (IF g.has_first_aid_kit \/ add.first_aid_kit
         THEN maintenance_costs.first_aid_kit ELSE 0)
      + (IF g.has_stair_handrails \/ add.handrails > 0
         THEN handrail_count * maintenance_costs.stair_handrail ELSE 0)
      + compliance_costs.annual_fire_inspection

annual_maintenance(g) ==
  LET add == items_to_add(g)
      handrail_count == IF add.handrails > 0 THEN add.handrails
                        ELSE g.number_of_floors - 1
  IN  (g.fire_extinguishers + add.fire_extinguishers) * maintenance_costs.fire_extinguisher
      + (g.smoke_detectors + add.smoke_detectors) * maintenance_costs.smoke_detector
      + (g.emergency_exits + add.emergency_exits) * maintenance_costs.emergency_exit_sign
      + (IF g.has_first_aid_kit \/ add.first_aid_kit
         THEN maintenance_costs.first_aid_kit ELSE 0)
      + (IF g.has_stair_handrails \/ add.handrails > 0
         THEN handrail_count * maintenance_costs.stair_handrail ELSE 0)
      + compliance_costs.annual_fire_inspection

\* mutant: the compliance cost left out of the total
total_one_time_without_compliance(g) ==
  RoundHalfEven(equipment_cost_halves(g) + 2 * installation_cost(g), 2)

\* 'total_one_time': round(equipment_cost + installation_cost + compliance_cost)
total_one_time(g) ==
  RoundHalfEven(equipment_cost_halves(g)
                + 2 * (installation_cost(g) + compliance_cost(g)), 2)

\* mutant: the fire alarm system only above six rooms
generate_optional_recommendations_above_six(g) ==
  << [item |-> <<"Fire blanket">>, cost_tnd |-> optional_improvements.fire_blanket] >>
  \o (IF g.number_of_floors > 1
      THEN << [item |-> <<"Emergency lighting">>,
               cost_tnd |-> optional_improvements.emergency_lighting
                            * g.number_of_floors] >>
      ELSE << >>)
  \o << [item |-> <<"Carbon monoxide detector">>,
         cost_tnd |-> optional_improvements.carbon_monoxide_detector] >>
  \o (IF g.number_of_rooms > 6
      THEN << [item |-> <<"Centralized fire alarm system">>,
               cost_tnd |-> optional_improvements.fire_alarm_system] >>
      ELSE << >>)
  \o (IF g.number_of_floors > 1 \/ g.number_of_rooms >= 5
      THEN << [item |-> <<"Emergency evacuation plan signage">>,
               cost_tnd |-> optional_improvements.emergency_evacuation_plan] >>
      ELSE << >>)
  \o (IF g.number_of_rooms >= 4
      THEN << [item |-> <<str(2), "security cameras">>,
               cost_tnd |-> optional_improvements.security_camera * 2] >>
      ELSE << >>)

generate_optional_recommendations(g) ==
  << [item |-> <<"Fire blanket">>, cost_tnd |-> optional_improvements.fire_blanket] >>
  \o (IF g.number_of_floors > 1
      THEN << [item |-> <<"Emergency lighting">>,
               cost_tnd |-> optional_improvements.emergency_lighting
                            * g.number_of_floors] >>
      ELSE << >>)
  \o << [item |-> <<"Carbon monoxide detector">>,
         cost_tnd |-> optional_improvements.carbon_monoxide_detector] >>
  \o (IF g.number_of_rooms >= 6
      THEN << [item |-> <<"Centralized fire alarm system">>,
               cost_tnd |-> optional_improvements.fire_alarm_system] >>
      ELSE << >>)
  \o (IF g.number_of_floors > 1 \/ g.number_of_rooms >= 5
      THEN << [item |-> <<"Emergency evacuation plan signage">>,
               cost_tnd |-> optional_improvements.emergency_evacuation_plan] >>
      ELSE << >>)
  \o (IF g.number_of_rooms >= 4
      THEN << [item |-> <<str(2), "security cameras">>,
               cost_tnd |-> optional_improvements.security_camera * 2] >>
      ELSE << >>)

get_building_notes(g) ==
  LET building_type == IF g.building_type = NULL THEN "traditional"
                       ELSE g.building_type
  IN  (IF building_type = "traditional" THEN << "Traditional construction" >>
       ELSE IF building_type = "modern" THEN << "Modern construction" >>
       ELSE IF building_type = "renovated" THEN << "Renovated building" >>
       ELSE << >>)
      \o (IF g.construction_year < 1980 THEN << "Pre-1980 construction" >> ELSE << >>)
      \o (IF g.number_of_floors >= 3 THEN << "Multi-floor building" >> ELSE << >>)
      \o (IF g.number_of_rooms >= 8 THEN << "Larger property" >> ELSE << >>)

\* the dictionary calculate_baseline_score returns for guesthouse g when
\* datetime.now().year is year
calculate_baseline_score(g, year) ==
  LET score == clamp_score(deducted_score(g))
      issues == issues_found(g, year)
      recommendations == recommendations_made(g)
  IN  [baseline_score |-> score,
       risk_level |-> risk_level_of(score),
       issues |-> IF issues # << >> THEN issues
                  ELSE << <<"No major safety issues detected">> >>,
       recommendations |-> IF recommendations # << >> THEN recommendations
                           ELSE << <<"Guesthouse meets baseline safety standards">> >>,
       cost_breakdown |->
         [equipment |-> equipment_cost(g),
          installation_labor |-> installation_cost(g),
          compliance_inspection |-> compliance_cost(g),
          total_one_time |-> total_one_time(g),
          annual_maintenance |-> annual_maintenance(g)],
       optional_improvements |-> generate_optional_recommendations(g),
       building_notes |-> get_building_notes(g)]

\* ------------------------------------------------------- WeatherService
\* dict.get(key, default) on an optional field
get(field, default) == IF field = None THEN default ELSE field[1]

\* The provider's answer is either a failed request (RequestException) or a
\* JSON body whose "current" object holds each field or lacks it.
get_current_weather(response) ==
  IF response.failed THEN None
  ELSE Some([temperature   |-> get(response.current.temperature_2m, 0),
             precipitation |-> get(response.current.precipitation, 0),
             rain          |-> get(response.current.rain, 0),
             wind_speed    |-> get(response.current.wind_speed_10m, 0)])

\* mutant: no risk points taken for "nothing known"
weather_risk_level_unknown_zero(risk_score) ==
  IF risk_score >= 40 THEN "high" ELSE IF risk_score >= 20 THEN "medium"
  ELSE IF risk_score = 0 THEN "unknown" ELSE "low"

weather_risk_level(risk_score) ==
  IF risk_score >= 40 THEN "high" ELSE IF risk_score >= 20 THEN "medium" ELSE "low"

\* mutant: rain counted only when rain and precipitation are both positive
analyze_weather_risks_rain_and(weather_data) ==
  IF weather_data = None
  THEN [risk_level |-> "unknown", risk_score |-> 0,
        recommendations |-> << "Weather data unavailable" >>]
  ELSE
    LET w == weather_data[1]
        temp_score == IF w.temperature > 35 THEN 15
                      ELSE IF w.temperature < 5 THEN 10 ELSE 0
        rain_score == IF w.rain > 0 /\ w.precipitation > 0 THEN 20 ELSE 0
        wind_score == IF w.wind_speed > 30 THEN 25
                      ELSE IF w.wind_speed > 20 THEN 10 ELSE 0
        risk_score == temp_score + rain_score + wind_score
    IN  [risk_level |-> weather_risk_level(risk_score),
         risk_score |-> risk_score,
         recommendations |-> << "No weather-related risks detected" >>]

analyze_weather_risks(weather_data) ==
  IF weather_data = None
  THEN [risk_level |-> "unknown", risk_score |-> 0,
        recommendations |-> << "Weather data unavailable" >>]
  ELSE
    LET w == weather_data[1]
        temp_score == IF w.temperature > 35 THEN 15
                      ELSE IF w.temperature < 5 THEN 10 ELSE 0
        rain_score == IF w.rain > 0 \/ w.precipitation > 0 THEN 20 ELSE 0
        wind_score == IF w.wind_speed > 30 THEN 25
                      ELSE IF w.wind_speed > 20 THEN 10 ELSE 0
        risk_score == temp_score + rain_score + wind_score
        recommendations ==
          (IF w.temperature > 35 THEN << "High temperature" >>
           ELSE IF w.temperature < 5 THEN << "Low temperature" >> ELSE << >>)
          \o (IF w.rain > 0 \/ w.precipitation > 0
              THEN << "Rainy conditions" >> ELSE << >>)
          \o (IF w.wind_speed > 30 THEN << "Strong winds" >>
              ELSE IF w.wind_speed > 20 THEN << "Moderate winds" >> ELSE << >>)
    IN  [risk_level |-> weather_risk_level(risk_score),
         risk_score |-> risk_score,
         recommendations |-> IF recommendations # << >> THEN recommendations
                             ELSE << "No weather-related risks detected" >>]

\* -------------------------------------------- EmergencyFacilitiesService
\* The provider's answer is either a failed request or the elements found,
\* of which response.hospitals are tagged hospital and response.pharmacies
\* pharmacy.
find_nearby_facilities(response, radius_km) ==
  IF response.failed
  THEN [hospitals |-> 0, pharmacies |-> 0, radius_km |-> radius_km,
        error |-> Some("Unable to fetch facility data")]
  ELSE [hospitals |-> response.hospitals, pharmacies |-> response.pharmacies,
        radius_km |-> radius_km, error |-> None]

\* mutant: two pharmacies still counted as limited access
analyze_facility_access_le2(facilities_data) ==
  LET hospitals == facilities_data.hospitals
      pharmacies == facilities_data.pharmacies
  IN  [risk_adjustment |->
         (IF hospitals = 0 THEN 20 ELSE IF hospitals = 1 THEN 10 ELSE 0)
         + (IF pharmacies = 0 THEN 10 ELSE IF pharmacies <= 2 THEN 5 ELSE 0),
       recommendations |->
         << (IF hospitals = 0 THEN "No hospitals nearby"
             ELSE IF hospitals = 1 THEN "Limited hospital access"
             ELSE "Good hospital access in the area"),
            (IF pharmacies = 0 THEN "No pharmacies nearby"
             ELSE IF pharmacies <= 2 THEN "Limited pharmacy access"
             ELSE "Good pharmacy access in the area") >>]

analyze_facility_access(facilities_data) ==
  LET hospitals == facilities_data.hospitals
      pharmacies == facilities_data.pharmacies
  IN  [risk_adjustment |->
         (IF hospitals = 0 THEN 20 ELSE IF hospitals = 1 THEN 10 ELSE 0)
         + (IF pharmacies = 0 THEN 10 ELSE IF pharmacies < 2 THEN 5 ELSE 0),
       recommendations |->
         << (IF hospitals = 0 THEN "No hospitals nearby"
             ELSE IF hospitals = 1 THEN "Limited hospital access"
             ELSE "Good hospital access in the area"),
            (IF pharmacies = 0 THEN "No pharmacies nearby"
             ELSE IF pharmacies < 2 THEN "Limited pharmacy access"
             ELSE "Good pharmacy access in the area") >>]

\* ------------------------------------------------- calculate_final_score
\* mutant: the facility risk subtracted in full
adjusted_score_unhalved(baseline_score, weather_risk, facility_risk) ==
  2 * baseline_score - 2 * weather_risk - 2 * facility_risk

\* mutant: good facility access earns five points back
adjusted_score_rewarding(baseline_score, weather_risk, facility_risk) ==
  2 * baseline_score - 2 * weather_risk - facility_risk
  + (IF facility_risk = 0 THEN 10 ELSE 0)

\* baseline - weather risk - facility risk / 2, in halves of a point
adjusted_score(baseline_score, weather_risk, facility_risk) ==
  2 * baseline_score - 2 * weather_risk - facility_risk

\* mutant: only the upper clamp
clamp_final_upper_only(halves) == Min(200, halves)

\* max(0, min(100, final_score)) on halves
clamp_final(halves) == Max(0, Min(200, halves))

\* mutant: strict comparisons
final_risk_level_strict(halves) ==
  IF halves > 160 THEN "low" ELSE IF halves > 100 THEN "medium" ELSE "high"

\* the if-chain on the unrounded final score (80 and 50 in halves)
final_risk_level_of(halves) ==
  IF halves >= 160 THEN "low" ELSE IF halves >= 100 THEN "medium" ELSE "high"

\* round(final_score, 1): halves to tenths
round1(halves) == RoundHalfEven(halves * 10, 2)

\* mutant: only the first optional item counted
SumCosts_first(items) ==
  IF items = << >> THEN 0 ELSE Head(items).cost_tnd

RECURSIVE SumCosts(_)
SumCosts(items) ==
  IF items = << >> THEN 0 ELSE Head(items).cost_tnd + SumCosts(Tail(items))

complexity_description(g) ==
  IF building_multiplier(g) < 10 THEN "Lower complexity"
  ELSE IF building_multiplier(g) > 10 THEN "Higher complexity"
  ELSE "Standard complexity"

\* _score_to_text, on the score in halves
score_to_text(halves) ==
  IF halves >= 160 THEN "Low Risk"
  ELSE IF halves >= 100 THEN "Medium Risk"
  ELSE "High Risk"

\* the text of {round(final_score, 1)}: max(0, min(100, x)) hands back the
\* int bound when the float x reaches it, and a float otherwise
format_score(halves) ==
  IF halves = 200 THEN << "100" >>
  ELSE IF halves = 0 THEN << "0" >>
  ELSE << str(halves \div 2), ".", IF halves % 2 = 1 THEN "5" ELSE "0" >>

\* _generate_explanation: the sentences of the text, each the tuple of its
\* literal pieces and formatted values; final_score is in halves
generate_explanation(final_score, baseline, weather, facilities, one_time_cost, annual_cost) ==
  LET weather_risk == weather.risk_score
      facility_risk == facilities.risk_adjustment
  IN  << << "Your guesthouse received a final safety score of " >>
            \o format_score(final_score)
            \o << "/100 (", score_to_text(final_score), "). " >>,
         << "The baseline safety score is ", str(baseline.baseline_score),
            "/100 based on your building's safety equipment and structure. " >>,
         IF baseline.issues # << >>
         THEN << "We identified ", str(Len(baseline.issues)),
                 " area(s) requiring improvement. " >>
         ELSE << "Your baseline safety standards are excellent. " >>,
         IF one_time_cost > 0
         THEN << "The total one-time investment for mandatory improvements is ",
                 str(one_time_cost), " TND, which includes equipment (",
                 str(baseline.cost_breakdown.equipment), " TND), installation labor (",
                 str(baseline.cost_breakdown.installation_labor),
                 " TND), and compliance inspections (",
                 str(baseline.cost_breakdown.compliance_inspection), " TND). " >>
         ELSE << "No mandatory improvements are needed. " >> >>
      \o (IF annual_cost > 0
          THEN << << "Ongoing annual maintenance costs are estimated at ", str(annual_cost),
                     " TND for equipment servicing, inspections, and supply restocking. " >> >>
          ELSE << >>)
      \o << IF weather_risk > 0
            THEN << "Today's weather conditions add ", str(weather_risk), " risk points. " >>
            ELSE << "Weather conditions today pose minimal risk. " >>,
            IF facility_risk > 10
            THEN << "Limited access to emergency facilities adds ",
                    str(RoundHalfEven(facility_risk, 2)),
                    " risk points to your daily score. " >>
            ELSE << "Good access to emergency facilities in your area. " >> >>
      \o (IF baseline.optional_improvements # << >>
          THEN << << "Additionally, ", str(Len(baseline.optional_improvements)),
                     " optional safety enhancements are recommended to further improve guest safety and comfort." >> >>
          ELSE << >>)

calculate_final_score(g, baseline_result, weather_analysis, facilities_analysis) ==
  LET weather_risk == weather_analysis.risk_score
      facility_risk == facilities_analysis.risk_adjustment
      final_score == clamp_final(adjusted_score(baseline_result.baseline_score,
                                                weather_risk, facility_risk))
      one_time_cost == baseline_result.cost_breakdown.total_one_time
      annual_cost == baseline_result.cost_breakdown.annual_maintenance
      optional_total == SumCosts(baseline_result.optional_improvements)
  IN  [scores |->
         [baseline_score |-> baseline_result.baseline_score,
          baseline_risk_level |-> baseline_result.risk_level,
          weather_risk_score |-> weather_risk,
          facility_risk_adjustment |-> facility_risk,
          final_score |-> round1(final_score),
          final_risk_level |-> final_risk_level_of(final_score)],
       issues_identified |-> baseline_result.issues,
       recommendations |->
         [mandatory_improvements |-> baseline_result.recommendations,
          facilities_access |-> facilities_analysis.recommendations,
          weather_today |-> weather_analysis.recommendations,
          optional_enhancements |-> baseline_result.optional_improvements],
       cost_estimates |->
         [mandatory_improvements |->
            [equipment_materials |-> baseline_result.cost_breakdown.equipment,
             installation_labor |-> baseline_result.cost_breakdown.installation_labor,
             compliance_inspections |->
               baseline_result.cost_breakdown.compliance_inspection,
             total_one_time_investment |-> one_time_cost],
          ongoing_costs |-> [annual_maintenance |-> annual_cost],
          optional_improvements |->
            [total_if_all_implemented |-> optional_total,
             items |-> baseline_result.optional_improvements],
          project_summary |->
            [minimum_investment |-> one_time_cost,
             with_optional_improvements |-> one_time_cost + optional_total,
             first_year_total |-> one_time_cost + annual_cost]],
       building_context |->
         [type |-> g.building_type,
          installation_complexity |-> complexity_description(g),
          notes |-> baseline_result.building_notes],
       explanation |-> generate_explanation(final_score, baseline_result, weather_analysis,
                                            facilities_analysis, one_time_cost, annual_cost)]

\* ------------------------------------------------------------ the routes
\* A JSON value of a request body: its kind, the integer it denotes (a
\* number, true/false as 1/0, a string of digits) and its text.  Missing
\* stands for a key the body does not hold.
JNumber(n) == [kind |-> "number", v |-> n, s |-> ""]
JBool(b) == [kind |-> "bool", v |-> IF b THEN 1 ELSE 0, s |-> ""]
JDigits(n) == [kind |-> "digits", v |-> n, s |-> ToString(n)]
JString(text) == [kind |-> "string", v |-> 0, s |-> text]
JNull == [kind |-> "null", v |-> 0, s |-> ""]
Missing == [kind |-> "missing", v |-> 0, s |-> ""]

Fields ==
  {"name", "address", "latitude", "longitude", "construction_year",
   "number_of_floors", "number_of_rooms", "fire_extinguishers",
   "smoke_detectors", "emergency_exits", "has_first_aid_kit",
   "has_stair_handrails", "stairs_slip_resistant", "building_type"}

\* Python's int(): a number, a bool or a string of digits converts, any
\* other string raises ValueError, None raises TypeError
int(x) ==
  IF x.kind \in {"number", "bool", "digits"}
  THEN [raised |-> "", v |-> x.v, message |-> << >>]
  ELSE IF x.kind = "string"
  THEN [raised |-> "ValueError", v |-> 0,
        message |-> << "invalid literal for int() with base 10: ", x.s >>]
  ELSE [raised |-> "TypeError", v |-> 0, message |-> << >>]

\* Python's float(), on the whole numbers the model uses for coordinates
float(x) ==
  IF x.kind \in {"number", "bool", "digits"}
  THEN [raised |-> "", v |-> x.v, message |-> << >>]
  ELSE IF x.kind = "string"
  THEN [raised |-> "ValueError", v |-> 0,
        message |-> << "could not convert string to float: ", x.s >>]
  ELSE [raised |-> "TypeError", v |-> 0, message |-> << >>]

\* Python's bool(): zero, False, None and the empty string are false
bool(x) ==
  IF x.kind \in {"number", "bool"} THEN x.v # 0
  ELSE IF x.kind \in {"digits", "string"} THEN x.s # ""
  ELSE FALSE

\* data.get(field, default)
data_get(data, field, default) ==
  IF data[field].kind = "missing" THEN default ELSE data[field]

\* not data
no_data(data) == \A f \in Fields : data[f].kind = "missing"

\* jsonify(...), status
reply(status, error, g, assessment) ==
  [status |-> status, error |-> error, guesthouse |-> g, assessment |-> assessment]

\* Guesthouse.to_dict with the row's primary key
to_dict(id, g) == [id |-> id] @@ g

required_fields ==
  << "name", "address", "latitude", "longitude", "construction_year",
     "number_of_floors", "number_of_rooms" >>

\* POST /api/guesthouses; new_id is the primary key the database gives the
\* row on commit
create_guesthouse(st, current_owner_id, data, new_id) ==
  IF no_data(data)
  THEN [store |-> st, response |-> reply(400, << "No data provided" >>, None, None)]
  ELSE IF \E i \in 1..Len(required_fields) : data[required_fields[i]].kind = "missing"
  THEN LET i == CHOOSE j \in 1..Len(required_fields) :
                  /\ data[required_fields[j]].kind = "missing"
                  /\ \A k \in 1..(j - 1) : data[required_fields[k]].kind # "missing"
       IN  [store |-> st,
            response |-> reply(400, << "Missing required field: ", required_fields[i] >>,
                               None, None)]
  ELSE
    LET given_type == data_get(data, "building_type", JString("traditional"))
        building_type ==
          IF given_type.kind = "string" /\ given_type.s \in BuildingTypes
          THEN given_type.s ELSE "traditional"
        converted ==
          << float(data["latitude"]), float(data["longitude"]),
             int(data["construction_year"]), int(data["number_of_floors"]),
             int(data["number_of_rooms"]),
             int(data_get(data, "fire_extinguishers", JNumber(0))),
             int(data_get(data, "smoke_detectors", JNumber(0))),
             int(data_get(data, "emergency_exits", JNumber(0))) >>
        failed == { i \in 1..Len(converted) : converted[i].raised # "" }
    IN  IF failed # {}
        THEN LET first == converted[CHOOSE i \in failed : \A j \in failed : i <= j]
             IN  IF first.raised = "ValueError"
                 THEN [store |-> st,
                       response |-> reply(400, << "Invalid field value: " >> \o first.message,
                                          None, None)]
                 ELSE [store |-> st,
                       response |-> reply(500, << "Failed to create guesthouse" >>,
                                          None, None)]
        ELSE LET new_guesthouse ==
                   [owner_id |-> current_owner_id,
                    name |-> data["name"].s,
                    address |-> data["address"].s,
                    latitude |-> converted[1].v,
                    longitude |-> converted[2].v,
                    construction_year |-> converted[3].v,
                    number_of_floors |-> converted[4].v,
                    number_of_rooms |-> converted[5].v,
                    fire_extinguishers |-> converted[6].v,
                    smoke_detectors |-> converted[7].v,
                    emergency_exits |-> converted[8].v,
                    has_first_aid_kit |-> bool(data_get(data, "has_first_aid_kit", JBool(FALSE))),
                    has_stair_handrails |->
                      bool(data_get(data, "has_stair_handrails", JBool(FALSE))),
                    stairs_slip_resistant |->
                      bool(data_get(data, "stairs_slip_resistant", JBool(FALSE))),
                    building_type |-> building_type]
             IN  [store |-> [st EXCEPT ![new_id] = Some(new_guesthouse)],
                  response |-> reply(201, << >>, Some(to_dict(new_id, new_guesthouse)), None)]

\* GET /api/guesthouses/<id>
get_guesthouse(st, current_owner_id, guesthouse_id) ==
  IF st[guesthouse_id] = None
  THEN reply(404, << "Guesthouse not found" >>, None, None)
  ELSE IF st[guesthouse_id][1].owner_id # current_owner_id
  THEN reply(403, << "Not authorized to access this guesthouse" >>, None, None)
  ELSE reply(200, << >>, Some(to_dict(guesthouse_id, st[guesthouse_id][1])), None)

\* setattr(guesthouse, field, data[field]) for a field the body holds: the
\* number into an Integer or Float column, the bool into a Boolean column,
\* the text into a String column
set_number(g, data, field) ==
  IF data[field].kind = "missing" THEN g[field] ELSE data[field].v
set_flag(g, data, field) ==
  IF data[field].kind = "missing" THEN g[field] ELSE data[field].v # 0
set_text(g, data, field) ==
  IF data[field].kind = "missing" THEN g[field] ELSE data[field].s

\* mutant: building_type updated like any other field
update_guesthouse_retyping(st, current_owner_id, guesthouse_id, data) ==
  IF st[guesthouse_id] = None
  THEN [store |-> st, response |-> reply(404, << "Guesthouse not found" >>, None, None)]
  ELSE IF st[guesthouse_id][1].owner_id # current_owner_id
  THEN [store |-> st,
        response |-> reply(403, << "Not authorized to update this guesthouse" >>,
                           None, None)]
  ELSE IF no_data(data)
  THEN [store |-> st, response |-> reply(400, << "No data provided" >>, None, None)]
  ELSE
    LET g == st[guesthouse_id][1]
        updated ==
          [owner_id |-> g.owner_id,
           name |-> set_text(g, data, "name"),
           address |-> set_text(g, data, "address"),
           latitude |-> set_number(g, data, "latitude"),
           longitude |-> set_number(g, data, "longitude"),
           construction_year |-> set_number(g, data, "construction_year"),
           number_of_floors |-> set_number(g, data, "number_of_floors"),
           number_of_rooms |-> set_number(g, data, "number_of_rooms"),
           fire_extinguishers |-> set_number(g, data, "fire_extinguishers"),
           smoke_detectors |-> set_number(g, data, "smoke_detectors"),
           emergency_exits |-> set_number(g, data, "emergency_exits"),
           has_first_aid_kit |-> set_flag(g, data, "has_first_aid_kit"),
           has_stair_handrails |-> set_flag(g, data, "has_stair_handrails"),
           stairs_slip_resistant |-> set_flag(g, data, "stairs_slip_resistant"),
           building_type |-> set_text(g, data, "building_type")]
    IN  [store |-> [st EXCEPT ![guesthouse_id] = Some(updated)],
         response |-> reply(200, << >>, Some(to_dict(guesthouse_id, updated)), None)]

\* PUT /api/guesthouses/<id>
update_guesthouse(st, current_owner_id, guesthouse_id, data) ==
  IF st[guesthouse_id] = None
  THEN [store |-> st, response |-> reply(404, << "Guesthouse not found" >>, None, None)]
  ELSE IF st[guesthouse_id][1].owner_id # current_owner_id
  THEN [store |-> st,
        response |-> reply(403, << "Not authorized to update this guesthouse" >>,
                           None, None)]
  ELSE IF no_data(data)
  THEN [store |-> st, response |-> reply(400, << "No data provided" >>, None, None)]
  ELSE
    LET g == st[guesthouse_id][1]
        updated ==
          [owner_id |-> g.owner_id,
           name |-> set_text(g, data, "name"),
           address |-> set_text(g, data, "address"),
           latitude |-> set_number(g, data, "latitude"),
           longitude |-> set_number(g, data, "longitude"),
           construction_year |-> set_number(g, data, "construction_year"),
           number_of_floors |-> set_number(g, data, "number_of_floors"),
           number_of_rooms |-> set_number(g, data, "number_of_rooms"),
           fire_extinguishers |-> set_number(g, data, "fire_extinguishers"),
           smoke_detectors |-> set_number(g, data, "smoke_detectors"),
           emergency_exits |-> set_number(g, data, "emergency_exits"),
           has_first_aid_kit |-> set_flag(g, data, "has_first_aid_kit"),
           has_stair_handrails |-> set_flag(g, data, "has_stair_handrails"),
           stairs_slip_resistant |-> set_flag(g, data, "stairs_slip_resistant"),
           building_type |-> g.building_type]
    IN  [store |-> [st EXCEPT ![guesthouse_id] = Some(updated)],
         response |-> reply(200, << >>, Some(to_dict(guesthouse_id, updated)), None)]

\* mutant: any owner may delete
delete_guesthouse_unchecked(st, current_owner_id, guesthouse_id) ==
  IF st[guesthouse_id] = None
  THEN [store |-> st, response |-> reply(404, << "Guesthouse not found" >>, None, None)]
  ELSE [store |-> [st EXCEPT ![guesthouse_id] = None],
        response |-> reply(200, << >>, None, None)]

\* DELETE /api/guesthouses/<id>
delete_guesthouse(st, current_owner_id, guesthouse_id) ==
  IF st[guesthouse_id] = None
  THEN [store |-> st, response |-> reply(404, << "Guesthouse not found" >>, None, None)]
  ELSE IF st[guesthouse_id][1].owner_id # current_owner_id
  THEN [store |-> st,
        response |-> reply(403, << "Not authorized to delete this guesthouse" >>,
                           None, None)]
  ELSE [store |-> [st EXCEPT ![guesthouse_id] = None],
        response |-> reply(200, << >>, None, None)]

\* GET /api/guesthouses/<id>/safety-assessment, with what the two providers
\* answer during the request
get_safety_assessment(st, current_owner_id, guesthouse_id, year, weather, facilities) ==
  IF st[guesthouse_id] = None
  THEN reply(404, << "Guesthouse not found" >>, None, None)
  ELSE IF st[guesthouse_id][1].owner_id # current_owner_id
  THEN reply(403, << "Not authorized to access this guesthouse" >>, None, None)
  ELSE
    LET g == st[guesthouse_id][1]
        baseline == calculate_baseline_score(g, year)
        reading == get_current_weather(weather)
        weather_risks == analyze_weather_risks(reading)
        found == find_nearby_facilities(facilities, 5)
        facility_access == analyze_facility_access(found)
        final == calculate_final_score(g, baseline, weather_risks, facility_access)
    IN  reply(200, << >>, None,
              Some([assessment |-> final,
                    external_data |-> [weather |-> reading,
                                       emergency_facilities |-> found]]))

\* ------------------------------------------------------------ the inputs
YearChoices == {1970, 1985, 2015}
RoomChoices == {3, 4, 5, 6, 8}
TypeChoices == BuildingTypes \cup {NULL, "villa"}

\* The equipment a guesthouse can lack or have: every count from none to
\* one above what the thresholds require for its floors.
Equipped(g) ==
  /\ g.fire_extinguishers <= g.number_of_floors + 1
  /\ g.smoke_detectors <= 2 * g.number_of_floors + 1

\* nothing installed, or exactly what is required
BareOrCompliant(g) ==
  \/ /\ g.fire_extinguishers = 0
     /\ g.smoke_detectors = 0
     /\ g.emergency_exits = 0
     /\ ~g.has_first_aid_kit /\ ~g.has_stair_handrails /\ ~g.stairs_slip_resistant
  \/ /\ g.fire_extinguishers = g.number_of_floors
     /\ g.smoke_detectors = 2 * g.number_of_floors
     /\ g.emergency_exits = 2
     /\ g.has_first_aid_kit /\ g.has_stair_handrails /\ g.stairs_slip_resistant

\* Stored guesthouses (floors and rooms >= 1, counts >= 0).  The equipment
\* varies in full for a 4-room house; the number of rooms varies for the
\* bare and for the compliant house.
Guesthouses ==
  { g \in [construction_year : YearChoices,
           number_of_floors : 1..MaxFloors,
           number_of_rooms : RoomChoices,
           fire_extinguishers : 0..(MaxFloors + 1),
           smoke_detectors : 0..(2 * MaxFloors + 1),
           emergency_exits : 0..3,
           has_first_aid_kit : BOOLEAN,
           has_stair_handrails : BOOLEAN,
           stairs_slip_resistant : BOOLEAN,
           building_type : TypeChoices] :
      /\ Equipped(g)
      /\ g.number_of_rooms = 4 \/ BareOrCompliant(g) }

Example1 ==
  [construction_year |-> 2015, number_of_floors |-> 1, number_of_rooms |-> 3,
   fire_extinguishers |-> 1, smoke_detectors |-> 2, emergency_exits |-> 2,
   has_first_aid_kit |-> TRUE, has_stair_handrails |-> TRUE,
   stairs_slip_resistant |-> TRUE, building_type |-> "modern"]

Example2 ==
  [construction_year |-> 1970, number_of_floors |-> 2, number_of_rooms |-> 4,
   fire_extinguishers |-> 0, smoke_detectors |-> 0, emergency_exits |-> 0,
   has_first_aid_kit |-> FALSE, has_stair_handrails |-> FALSE,
   stairs_slip_resistant |-> FALSE, building_type |-> "traditional"]

\* the guesthouses the handler is exercised on
AssessedGuesthouses ==
  { Example1, Example2,
    [Example1 EXCEPT !.construction_year = 1985],
    [Example1 EXCEPT !.has_first_aid_kit = FALSE],
    [Example1 EXCEPT !.emergency_exits = 0, !.building_type = "renovated"],
    [Example1 EXCEPT !.smoke_detectors = 1, !.building_type = NULL],
    [Example1 EXCEPT !.number_of_floors = 2, !.number_of_rooms = 6,
                     !.building_type = "villa"],
    [Example2 EXCEPT !.fire_extinguishers = 2, !.smoke_detectors = 4],
    [Example2 EXCEPT !.emergency_exits = 2, !.has_first_aid_kit = TRUE,
                     !.building_type = "renovated"],
    [Example2 EXCEPT !.number_of_floors = 4, !.number_of_rooms = 8] }

ClockYears == 2026..(2026 + MaxTicks)

Absent(v) == {None} \cup {Some(x) : x \in v}

WeatherResponses ==
  { [failed |-> TRUE,
     current |-> [temperature_2m |-> None, precipitation |-> None,
                  rain |-> None, wind_speed_10m |-> None]] }
  \cup
  [failed : {FALSE},
   current : [temperature_2m : Absent({2, 20, 40}),
              precipitation : Absent({0, 5}),
              rain : Absent({0, 5}),
              wind_speed_10m : Absent({25, 35})]]

FacilityResponses ==
  { [failed |-> TRUE, hospitals |-> 0, pharmacies |-> 0] }
  \cup [failed : {FALSE}, hospitals : 0..MaxFacilities, pharmacies : 0..MaxFacilities]

\* two owners: the owner of a row and someone else
Owners == {1, 2}
Ids == 1..MaxGuesthouses

\* the request body of the create_guesthouse docstring
ValidBody ==
  [name |-> JString("My Guesthouse"),
   address |-> JString("123 Street, Tunis"),
   latitude |-> JNumber(36),
   longitude |-> JNumber(10),
   construction_year |-> JNumber(2010),
   number_of_floors |-> JNumber(2),
   number_of_rooms |-> JNumber(5),
   fire_extinguishers |-> JNumber(2),
   smoke_detectors |-> JNumber(4),
   emergency_exits |-> JNumber(2),
   has_first_aid_kit |-> JBool(TRUE),
   has_stair_handrails |-> JBool(TRUE),
   stairs_slip_resistant |-> JBool(FALSE),
   building_type |-> Missing]

EmptyBody == [f \in Fields |-> Missing]

\* the bodies sent to create_guesthouse: the valid one and bodies that
\* differ from it in one field
CreateBodies ==
  { ValidBody, EmptyBody,
    [ValidBody EXCEPT !["number_of_floors"] = JNumber(-1)],
    [ValidBody EXCEPT !["number_of_floors"] = JString("abc")],
    [ValidBody EXCEPT !["number_of_rooms"] = JDigits(5)],
    [ValidBody EXCEPT !["smoke_detectors"] = Missing],
    [ValidBody EXCEPT !["emergency_exits"] = JNull],
    [ValidBody EXCEPT !["latitude"] = JString("north")],
    [ValidBody EXCEPT !["name"] = Missing],
    [ValidBody EXCEPT !["building_type"] = JString("villa")],
    [ValidBody EXCEPT !["building_type"] = JNull],
    [ValidBody EXCEPT !["building_type"] = JString("modern")] }

\* the bodies sent to update_guesthouse.  Numeric and boolean columns are
\* given JSON numbers and booleans only: what the database does with a
\* string bound to an Integer column is not decided by this source.
UpdateBodies ==
  { EmptyBody,
    [EmptyBody EXCEPT !["number_of_floors"] = JNumber(0),
                      !["name"] = JString("Renamed"),
                      !["building_type"] = JString("modern")],
    [EmptyBody EXCEPT !["number_of_floors"] = JNumber(2),
                      !["name"] = JString("My Guesthouse"),
                      !["has_stair_handrails"] = JBool(TRUE)] }

\* what the providers answer while a stored guesthouse is assessed
RouteWeatherResponses ==
  { w \in WeatherResponses :
      \/ w.failed
      \/ /\ w.current.temperature_2m = Some(20)
         /\ w.current.precipitation = Some(0)
         /\ w.current.rain = Some(0)
         /\ w.current.wind_speed_10m = Some(25) }

RouteFacilityResponses ==
  { f \in FacilityResponses : f.failed \/ (f.hospitals = 1 /\ f.pharmacies = 2) }


\* ------------------------------------------------------------- the state
VARIABLES
  guesthouse,          \* the Guesthouse row handed to SafetyAssessment
  current_year,        \* datetime.now().year
  pc,                  \* the handler's position
  baseline_result,     \* result of the latest calculate_baseline_score call
  previous_result,     \* result of the call before it
  weather_response,    \* what the weather provider answered
  weather_data, weather_analysis,
  facilities_data, facilities_analysis,
  final_assessment,    \* the body of the handler's 200 response
  store,               \* the guesthouses table: primary key -> row
  request,             \* the latest request: route, requester, id
  answer               \* the response it got

vars == << config, guesthouse, current_year, pc, baseline_result, previous_result,
           weather_response, weather_data, weather_analysis, facilities_data, facilities_analysis,
           final_assessment, store, request, answer >>

external == << weather_response, weather_data, weather_analysis, facilities_data,
               facilities_analysis, final_assessment >>

engine == << config, guesthouse, current_year, pc, baseline_result, previous_result, external >>

routes == << store, request, answer >>

InitWith(S) ==
  /\ config = Config
  /\ guesthouse \in S
  /\ current_year = 2026
  /\ pc = "idle"
  /\ baseline_result = None
  /\ previous_result = None
  /\ weather_response = None
  /\ weather_data = None
  /\ weather_analysis = None
  /\ facilities_data = None
  /\ facilities_analysis = None
  /\ final_assessment = None
  /\ store = [id \in Ids |-> None]
  /\ request = None
  /\ answer = None

\* the calendar year changes between two requests
Tick ==
  /\ pc = "idle"
  /\ current_year + 1 \in ClockYears
  /\ current_year' = current_year + 1
  /\ UNCHANGED << guesthouse, pc, baseline_result, previous_result, external >>
  /\ UNCHANGED << config, routes >>

\* assessment.calculate_baseline_score()
CallBaseline ==
  /\ baseline_result' = Some(calculate_baseline_score(guesthouse, current_year))
  /\ previous_result' = baseline_result

\* a direct call of the engine
CalculateBaselineScore ==
  /\ pc = "idle"
  /\ CallBaseline
  /\ UNCHANGED << guesthouse, current_year, pc, external >>
  /\ UNCHANGED << config, routes >>

\* ---- get_safety_assessment, call by call
\* mutant: the engine writes the items to add onto the record it assesses
AssessBaseline_installing ==
  /\ pc = "idle"
  /\ CallBaseline
  /\ guesthouse' =
       [guesthouse EXCEPT
          !.fire_extinguishers = @ + items_to_add(guesthouse).fire_extinguishers,
          !.smoke_detectors = @ + items_to_add(guesthouse).smoke_detectors,
          !.has_first_aid_kit = TRUE]
  /\ weather_response' = None
  /\ weather_data' = None
  /\ weather_analysis' = None
  /\ facilities_data' = None
  /\ facilities_analysis' = None
  /\ final_assessment' = None
  /\ pc' = "weather"
  /\ UNCHANGED << current_year >>
  /\ UNCHANGED << config, routes >>

AssessBaseline ==
  /\ pc = "idle"
  /\ CallBaseline
  /\ weather_response' = None
  /\ weather_data' = None
  /\ weather_analysis' = None
  /\ facilities_data' = None
  /\ facilities_analysis' = None
  /\ final_assessment' = None
  /\ pc' = "weather"
  /\ UNCHANGED << guesthouse, current_year >>
  /\ UNCHANGED << config, routes >>

GetCurrentWeather ==
  /\ pc = "weather"
  /\ \E response \in WeatherResponses :
       /\ weather_response' = Some(response)
       /\ weather_data' = get_current_weather(response)
  /\ pc' = "weather_analysis"
  /\ UNCHANGED << guesthouse, current_year, baseline_result, previous_result,
                  weather_analysis, facilities_data, facilities_analysis,
                  final_assessment >>
  /\ UNCHANGED << config, routes >>

AnalyzeWeatherRisks ==
  /\ pc = "weather_analysis"
  /\ weather_analysis' = Some(analyze_weather_risks(weather_data))
  /\ pc' = "facilities"
  /\ UNCHANGED << guesthouse, current_year, baseline_result, previous_result,
                  weather_response, weather_data, facilities_data,
                  facilities_analysis,
                  final_assessment >>
  /\ UNCHANGED << config, routes >>

FindNearbyFacilities ==
  /\ pc = "facilities"
  /\ \E response \in FacilityResponses :
       facilities_data' = Some(find_nearby_facilities(response, 5))
  /\ pc' = "facility_analysis"
  /\ UNCHANGED << guesthouse, current_year, baseline_result, previous_result,
                  weather_response, weather_data, weather_analysis,
                  facilities_analysis,
                  final_assessment >>
  /\ UNCHANGED << config, routes >>

AnalyzeFacilityAccess ==
  /\ pc = "facility_analysis"
  /\ facilities_analysis' = Some(analyze_facility_access(facilities_data[1]))
  /\ pc' = "final"
  /\ UNCHANGED << guesthouse, current_year, baseline_result, previous_result,
                  weather_response, weather_data, weather_analysis,
                  facilities_data, final_assessment >>
  /\ UNCHANGED << config, routes >>

\* calculate_final_score, the external_data added to it, and the 200 response
CalculateFinalScore ==
  /\ pc = "final"
  /\ final_assessment' =
       Some([assessment |-> calculate_final_score(guesthouse, baseline_result[1],
                                                  weather_analysis[1],
                                                  facilities_analysis[1]),
             external_data |-> [weather |-> weather_data,
                                emergency_facilities |-> facilities_data[1]]])
  /\ pc' = "idle"
  /\ UNCHANGED << guesthouse, current_year, baseline_result, previous_result,
                  weather_response, weather_data, weather_analysis,
                  facilities_data, facilities_analysis >>
  /\ UNCHANGED << config, routes >>

\* ---- the guesthouse routes, one request at a time
CreateGuesthouse ==
  \E owner \in Owners, data \in CreateBodies, new_id \in Ids :
    /\ store[new_id] = None
    /\ LET result == create_guesthouse(store, owner, data, new_id)
       IN  /\ store' = result.store
           /\ answer' = Some(result.response)
    /\ request' = Some([route |-> "create_guesthouse", owner |-> owner, id |-> 0])
    /\ UNCHANGED engine

GetGuesthouse ==
  \E owner \in Owners, id \in Ids :
    /\ answer' = Some(get_guesthouse(store, owner, id))
    /\ request' = Some([route |-> "get_guesthouse", owner |-> owner, id |-> id])
    /\ UNCHANGED << store, engine >>

UpdateGuesthouse ==
  \E owner \in Owners, id \in Ids, data \in UpdateBodies :
    /\ LET result == update_guesthouse(store, owner, id, data)
       IN  /\ store' = result.store
           /\ answer' = Some(result.response)
    /\ request' = Some([route |-> "update_guesthouse", owner |-> owner, id |-> id])
    /\ UNCHANGED engine

DeleteGuesthouse ==
  \E owner \in Owners, id \in Ids :
    /\ LET result == delete_guesthouse(store, owner, id)
       IN  /\ store' = result.store
           /\ answer' = Some(result.response)
    /\ request' = Some([route |-> "delete_guesthouse", owner |-> owner, id |-> id])
    /\ UNCHANGED engine

GetSafetyAssessment ==
  \E owner \in Owners, id \in Ids,
     weather \in RouteWeatherResponses, facilities \in RouteFacilityResponses :
    /\ answer' = Some(get_safety_assessment(store, owner, id, current_year,
                                              weather, facilities))
    /\ request' = Some([route |-> "get_safety_assessment", owner |-> owner, id |-> id])
    /\ UNCHANGED << store, engine >>


\* ------------------------------------------------------ specifications
\* the engine called directly on every guesthouse
Init == InitWith(Guesthouses)
Next == CalculateBaselineScore
Spec == Init /\ [][Next]_vars

\* the get_safety_assessment handler
InitAssess == InitWith(AssessedGuesthouses)
NextAssess ==
  \/ AssessBaseline
  \/ GetCurrentWeather
  \/ AnalyzeWeatherRisks
  \/ FindNearbyFacilities
  \/ AnalyzeFacilityAccess
  \/ CalculateFinalScore
  \/ Tick
SpecAssess == InitAssess /\ [][NextAssess]_vars

\* the guesthouse routes on an empty table
InitCrud == InitWith({Example1})
NextCrud ==
  \/ CreateGuesthouse
  \/ GetGuesthouse
  \/ UpdateGuesthouse
  \/ DeleteGuesthouse
  \/ GetSafetyAssessment
SpecCrud == InitCrud /\ [][NextCrud]_vars

\* ------------------------------------------------------------ the claims
Baseline == baseline_result[1]
Scores == final_assessment[1].assessment.scores

\* a sequence holds the element x
Holds(seq, x) == \E i \in 1..Len(seq) : seq[i] = x

\* C1: for every valid property and every weather and facility analysis the
\* analyzers produce, calculate_baseline_score returns a baseline_score in
\* 0..100 and calculate_final_score a final_score in 0..100 (0..1000 tenths).
C1_ScoresInRange ==
  /\ baseline_result # None =>
       (Baseline.baseline_score >= 0 /\ Baseline.baseline_score <= 100)
  /\ final_assessment # None =>
       (Scores.final_score >= 0 /\ Scores.final_score <= 1000)

\* both clamps acted: the deductions and the external risks exceed the score
C1_Witness ==
  /\ final_assessment # None
  /\ deducted_score(guesthouse) < 0
  /\ Baseline.baseline_score = 0
  /\ Scores.weather_risk_score > 0
  /\ Scores.final_score = 0

\* the sum D of the independent deductions, as the claim lists them
C2_Deductions(g) ==
  (IF g.construction_year < 1990 THEN 10 ELSE 0)
  + 5 * Max(0, g.number_of_floors * 1 - g.fire_extinguishers)
  + 4 * Max(0, g.number_of_floors * 2 - g.smoke_detectors)
  + 10 * Max(0, 2 - g.emergency_exits)
  + (IF g.has_first_aid_kit THEN 0 ELSE 8)
  + (IF g.number_of_floors > 1 /\ ~g.has_stair_handrails THEN 8 ELSE 0)
  + (IF g.number_of_floors > 1 /\ ~g.stairs_slip_resistant THEN 6 ELSE 0)

\* C2: calculate_baseline_score returns baseline_score = max(0, 100 - D), D the
\* sum of the independent deductions (age 10, 5 per missing extinguisher, 4
\* per missing detector, 10 per missing exit, 8 without first aid kit and,
\* only above one floor, 8 without handrails and 6 without slip resistance);
\* the all-deficient two-floor 1970 property of Example 2 scores 22.
C2_BaselineScoreFormula ==
  baseline_result # None =>
    /\ Baseline.baseline_score = Max(0, 100 - C2_Deductions(guesthouse))
    /\ guesthouse = Example2 => Baseline.baseline_score = 22

C2_Witness ==
  /\ guesthouse = Example2
  /\ baseline_result # None
  /\ Baseline.baseline_score = 22

\* the thresholds of the claim on a score in tenths of a point
C3_Level(tenths) ==
  IF tenths >= 800 THEN "low" ELSE IF tenths >= 500 THEN "medium" ELSE "high"

\* C3: the baseline and the final risk level are a function of the score
\* alone with the same thresholds (>= 80 low, >= 50 medium, else high), and
\* the final risk level reported agrees with the thresholds applied to the
\* reported, rounded final_score.
C3_RiskLevels ==
  /\ baseline_result # None =>
       Baseline.risk_level = C3_Level(10 * Baseline.baseline_score)
  /\ final_assessment # None =>
       /\ Scores.final_risk_level = C3_Level(Scores.final_score)
       /\ Scores.baseline_risk_level = C3_Level(10 * Scores.baseline_score)

\* a final score of exactly 80.0 reported low after a deduction
C3_Witness ==
  /\ final_assessment # None
  /\ Scores.baseline_score > 80
  /\ Scores.final_score = 800
  /\ Scores.final_risk_level = "low"

\* C4: final_score = baseline_score - weather risk_score - risk_adjustment / 2,
\* clamped to [0, 100] and rounded to one decimal place (in tenths:
\* 10 b - 10 w - 5 f clamped to [0, 1000]); with no hospital and no pharmacy
\* the facility part of the deduction is exactly 15.
C4_FinalScoreFormula ==
  final_assessment # None =>
    LET b == Baseline.baseline_score
        w == weather_analysis[1].risk_score
        f == facilities_analysis[1].risk_adjustment
    IN  /\ Scores.final_score = Max(0, Min(1000, 10 * b - 10 * w - 5 * f))
        /\ (facilities_data[1].hospitals = 0 /\ facilities_data[1].pharmacies = 0)
             => Scores.final_score = Max(0, Min(1000, 10 * b - 10 * w - 150))

\* no hospital and no pharmacy found by a lookup that succeeded, in fair
\* weather: the score drops by exactly 15 and is not clamped
C4_Witness ==
  /\ final_assessment # None
  /\ facilities_data[1].error = None
  /\ facilities_data[1].hospitals = 0
  /\ facilities_data[1].pharmacies = 0
  /\ Scores.weather_risk_score = 0
  /\ Scores.final_score > 0
  /\ Scores.final_score = 10 * Baseline.baseline_score - 150

\* the properties identical to g except for one larger deficiency
C5_MoreDeficient(g) ==
  { [g EXCEPT !.fire_extinguishers = n] : n \in 0..(g.fire_extinguishers - 1) }
  \cup { [g EXCEPT !.smoke_detectors = n] : n \in 0..(g.smoke_detectors - 1) }
  \cup { [g EXCEPT !.emergency_exits = n] : n \in 0..(g.emergency_exits - 1) }
  \cup { [g EXCEPT !.construction_year = y] :
           y \in { z \in YearChoices : z < g.construction_year } }
  \cup (IF g.has_first_aid_kit THEN { [g EXCEPT !.has_first_aid_kit = FALSE] } ELSE {})
  \cup (IF g.has_stair_handrails
        THEN { [g EXCEPT !.has_stair_handrails = FALSE] } ELSE {})
  \cup (IF g.stairs_slip_resistant
        THEN { [g EXCEPT !.stairs_slip_resistant = FALSE] } ELSE {})

\* C5: of two properties identical except that one has a larger deficiency
\* (fewer extinguishers, detectors or exits, no first aid kit, no handrails,
\* no slip resistance, or an earlier construction year), the more deficient
\* one never has the greater baseline_score.
C5_Monotone ==
  baseline_result # None =>
    \A h \in C5_MoreDeficient(guesthouse) :
      calculate_baseline_score(h, current_year).baseline_score
        <= Baseline.baseline_score

\* a property scored with a more deficient twin that scores strictly lower
C5_Witness ==
  /\ baseline_result # None
  /\ guesthouse.smoke_detectors = 1
  /\ \E h \in C5_MoreDeficient(guesthouse) :
       /\ h.smoke_detectors = 0
       /\ calculate_baseline_score(h, current_year).baseline_score
            < Baseline.baseline_score

\* C6: two calculate_baseline_score calls with identical property and
\* configuration return identical results (score, risk level, issues text,
\* recommendations, costs, optional list, notes), whatever else differs
\* between the calls, including the current date.  (The guesthouse and the
\* configuration never change in a behaviour.)
C6_Deterministic ==
  (previous_result # None /\ baseline_result # None) =>
    previous_result = baseline_result

\* C7: for two properties identical except for building_type the
\* baseline_score, the equipment cost, the compliance_inspection cost and the
\* annual_maintenance are the same; only installation_labor (and the
\* total_one_time that includes it) may differ.
C7_MultiplierOnlyInstallation ==
  baseline_result # None =>
    \A t \in TypeChoices :
      LET other == calculate_baseline_score([guesthouse EXCEPT !.building_type = t],
                                            current_year)
      IN  /\ other.baseline_score = Baseline.baseline_score
          /\ other.cost_breakdown.equipment = Baseline.cost_breakdown.equipment
          /\ other.cost_breakdown.compliance_inspection
               = Baseline.cost_breakdown.compliance_inspection
          /\ other.cost_breakdown.annual_maintenance
               = Baseline.cost_breakdown.annual_maintenance

\* a modern property whose installation cost differs from its renovated twin
C7_Witness ==
  /\ baseline_result # None
  /\ guesthouse.building_type = "modern"
  /\ Baseline.cost_breakdown.compliance_inspection > 0
  /\ calculate_baseline_score([guesthouse EXCEPT !.building_type = "renovated"],
                              current_year).cost_breakdown.installation_labor
       # Baseline.cost_breakdown.installation_labor

\* C8: for the fully compliant property of Example 1 under the default
\* configuration calculate_baseline_score returns baseline_score = 100, the
\* single issue 'No major safety issues detected', equipment =
\* installation_labor = compliance_inspection = total_one_time = 0 and
\* annual_maintenance = 201.
C8_Example1 ==
  (guesthouse = Example1 /\ baseline_result # None) =>
    /\ Baseline.baseline_score = 100
    /\ Baseline.issues = << <<"No major safety issues detected">> >>
    /\ Baseline.cost_breakdown.equipment = 0
    /\ Baseline.cost_breakdown.installation_labor = 0
    /\ Baseline.cost_breakdown.compliance_inspection = 0
    /\ Baseline.cost_breakdown.total_one_time = 0
    /\ Baseline.cost_breakdown.annual_maintenance = 201

C8_Witness ==
  /\ guesthouse = Example1
  /\ baseline_result # None
  /\ Baseline.risk_level = "low"

\* C9: when the facility lookup fails, the facility risk contribution to the
\* final score is zero (the final_score is the one obtained with
\* risk_adjustment = 0), while the error flag in the returned external data
\* still reports the unavailability.
C9_FailedLookupAddsNoRisk ==
  (final_assessment # None
   /\ final_assessment[1].external_data.emergency_facilities.error # None) =>
    Scores.final_score
      = round1(clamp_final(adjusted_score(Baseline.baseline_score,
                                          weather_analysis[1].risk_score, 0)))

\* C10: a weather value the provider did not supply is never replaced by zero
\* for risk purposes: when the request failed or the response lacks the
\* temperature, precipitation, rain or wind field, analyze_weather_risks adds
\* no risk points for that measurement and the weather risk is reported as
\* unavailable, not as a reading of 0.
C10_MissingWeatherNotZero ==
  (weather_response # None /\ weather_analysis # None) =>
    LET r == weather_response[1]
        a == weather_analysis[1]
        lacking == \/ r.failed
                   \/ r.current.temperature_2m = None
                   \/ r.current.precipitation = None
                   \/ r.current.rain = None
                   \/ r.current.wind_speed_10m = None
    IN  /\ (r.failed \/ r.current.temperature_2m = None) =>
             (~Holds(a.recommendations, "Low temperature")
              /\ ~Holds(a.recommendations, "High temperature"))
        /\ lacking => a.risk_level = "unknown"

Report == final_assessment[1].assessment

\* C11: a property whose building_type is absent or not one of modern,
\* traditional, renovated is assessed exactly as a 'traditional' property:
\* the same installation cost, building notes, building_context type and
\* installation_complexity as for the same property with type 'traditional'.
C11_UnknownTypeIsTraditional ==
  (final_assessment # None /\ guesthouse.building_type \notin BuildingTypes) =>
    LET twin == [guesthouse EXCEPT !.building_type = "traditional"]
        twin_baseline == calculate_baseline_score(twin, current_year)
        twin_report == calculate_final_score(twin, twin_baseline, weather_analysis[1],
                                             facilities_analysis[1])
    IN  /\ Baseline.cost_breakdown.installation_labor
             = twin_baseline.cost_breakdown.installation_labor
        /\ Baseline.building_notes = twin_baseline.building_notes
        /\ Report.building_context.notes = twin_report.building_context.notes
        /\ Report.building_context.type = twin_report.building_context.type
        /\ Report.building_context.installation_complexity
             = twin_report.building_context.installation_complexity

\* C12: after any sequence of create_guesthouse and update_guesthouse
\* requests every stored guesthouse has number_of_floors >= 1,
\* number_of_rooms >= 1 and fire_extinguishers, smoke_detectors,
\* emergency_exits >= 0 (a request carrying an invalid or negative numeric
\* field having been rejected).
C12_StoredRowsValid ==
  \A id \in Ids :
    store[id] # None =>
      /\ store[id][1].number_of_floors >= 1
      /\ store[id][1].number_of_rooms >= 1
      /\ store[id][1].fire_extinguishers >= 0
      /\ store[id][1].smoke_detectors >= 0
      /\ store[id][1].emergency_exits >= 0

\* the request just served names a row and comes from someone else
C13_Foreign(st, req) ==
  /\ req.route # "create_guesthouse"
  /\ st[req.id] # None
  /\ st[req.id][1].owner_id # req.owner

\* C13: a get, update, delete or safety-assessment request by an owner on a
\* guesthouse whose owner_id differs from the requester's identity returns
\* 403, returns no data of that guesthouse and leaves the table unchanged;
\* a request on a non-existent id returns 404.
C13_ForeignRequestsRefused ==
  [][ /\ C13_Foreign(store, request'[1]) =>
           /\ answer'[1].status = 403
           /\ answer'[1].guesthouse = None
           /\ answer'[1].assessment = None
           /\ store' = store
      /\ (request'[1].route # "create_guesthouse" /\ store[request'[1].id] = None) =>
           /\ answer'[1].status = 404
           /\ store' = store ]_vars

\* someone else's delete request was refused and the row is still there
C13_Witness ==
  /\ request # None
  /\ request[1].route = "delete_guesthouse"
  /\ C13_Foreign(store, request[1])
  /\ answer[1].status = 403

\* C14: for every available weather reading analyze_weather_risks returns
\* risk_score = (15 if temperature > 35, else 10 if temperature < 5)
\* + (20 if rain > 0 or precipitation > 0) + (25 if wind_speed > 30, else 10
\* if wind_speed > 20), and risk_level 'high' from 40, 'medium' from 20,
\* otherwise 'low'; the score never exceeds 60, and temperature 40, rain 5,
\* wind 35 gives 60 and 'high'.
C14_WeatherRiskFormula ==
  (weather_analysis # None /\ weather_data # None) =>
    LET w == weather_data[1]
        a == weather_analysis[1]
        expected ==
          (IF w.temperature > 35 THEN 15 ELSE IF w.temperature < 5 THEN 10 ELSE 0)
          + (IF w.rain > 0 \/ w.precipitation > 0 THEN 20 ELSE 0)
          + (IF w.wind_speed > 30 THEN 25 ELSE IF w.wind_speed > 20 THEN 10 ELSE 0)
    IN  /\ a.risk_score = expected
        /\ a.risk_score <= 60
        /\ a.risk_level = (IF expected >= 40 THEN "high"
                           ELSE IF expected >= 20 THEN "medium" ELSE "low")
        /\ (w.temperature = 40 /\ w.rain = 5 /\ w.wind_speed = 35)
             => (a.risk_score = 60 /\ a.risk_level = "high")

\* rain without precipitation, in the example's heat and wind
C14_Witness ==
  /\ weather_analysis # None
  /\ weather_data # None
  /\ weather_data[1].temperature = 40
  /\ weather_data[1].rain = 5
  /\ weather_data[1].precipitation = 0
  /\ weather_data[1].wind_speed = 35
  /\ weather_analysis[1].risk_score = 60

\* C15: for a missing weather reading analyze_weather_risks returns
\* risk_score 0, risk_level 'unknown' and exactly one recommendation, that
\* weather data is unavailable; and 'unknown' is returned only for a missing
\* reading, never for one that was obtained.
C15_MissingReadingUnknown ==
  weather_analysis # None =>
    /\ weather_data = None =>
         weather_analysis[1] = [risk_level |-> "unknown", risk_score |-> 0,
                                recommendations |-> << "Weather data unavailable" >>]
    /\ weather_analysis[1].risk_level = "unknown" => weather_data = None

\* the request failed and the analysis was made
C15_Witness ==
  /\ weather_response # None
  /\ weather_response[1].failed
  /\ weather_analysis # None
  /\ weather_analysis[1].risk_level = "unknown"

\* C16: analyze_facility_access returns risk_adjustment = h + p, h = 20 for no
\* hospital, 10 for one, else 0, p = 10 for no pharmacy, 5 for one, else 0;
\* the result is between 0 and 30 and carries exactly two recommendations.
C16_FacilityRiskFormula ==
  facilities_analysis # None =>
    LET d == facilities_data[1]
        a == facilities_analysis[1]
        h == IF d.hospitals = 0 THEN 20 ELSE IF d.hospitals = 1 THEN 10 ELSE 0
        p == IF d.pharmacies = 0 THEN 10 ELSE IF d.pharmacies = 1 THEN 5 ELSE 0
    IN  /\ a.risk_adjustment = h + p
        /\ a.risk_adjustment >= 0
        /\ a.risk_adjustment <= 30
        /\ Len(a.recommendations) = 2

\* one hospital and two pharmacies
C16_Witness ==
  /\ facilities_analysis # None
  /\ facilities_data[1].hospitals = 1
  /\ facilities_data[1].pharmacies = 2
  /\ facilities_analysis[1].risk_adjustment = 10

\* the maintenance sum of the claim without its handrail term
C17_Units(g) ==
  (g.fire_extinguishers + Max(0, g.number_of_floors - g.fire_extinguishers)) * 15
  + (g.smoke_detectors + Max(0, 2 * g.number_of_floors - g.smoke_detectors)) * 8
  + (g.emergency_exits + Max(0, 2 - g.emergency_exits)) * 10
  + 50
  + 100

\* the handrail runs being added
C17_RunsAdded(g) ==
  IF g.number_of_floors > 1 /\ ~g.has_stair_handrails
  THEN g.number_of_floors - 1 ELSE 0

\* C17: annual_maintenance = (existing + added) extinguishers x 15
\* + detectors x 8 + exits x 10 + 50 for the first aid kit present or added
\* + 20 x (handrail runs added or, when handrails exist and none is added,
\* the existing floor count) + the annual inspection fee of 100.
C17_MaintenanceByFloorCount ==
  baseline_result # None =>
    Baseline.cost_breakdown.annual_maintenance
      = C17_Units(guesthouse)
        + 20 * (IF C17_RunsAdded(guesthouse) > 0 THEN C17_RunsAdded(guesthouse)
                ELSE IF guesthouse.has_stair_handrails
                     THEN guesthouse.number_of_floors ELSE 0)

\* C17, amended: the handrail rate is multiplied by the runs added or, when
\* handrails exist and none is added, by the existing staircases
\* (number_of_floors - 1); the fee of 100 is always added, so
\* annual_maintenance >= 100.
C17_MaintenanceFormula ==
  baseline_result # None =>
    /\ Baseline.cost_breakdown.annual_maintenance
         = C17_Units(guesthouse)
           + 20 * (IF C17_RunsAdded(guesthouse) > 0 THEN C17_RunsAdded(guesthouse)
                   ELSE IF guesthouse.has_stair_handrails
                        THEN guesthouse.number_of_floors - 1 ELSE 0)
    /\ Baseline.cost_breakdown.annual_maintenance >= 100

\* a compliant house of three floors: two existing staircases maintained
C17_Witness ==
  /\ baseline_result # None
  /\ guesthouse.number_of_floors = 3
  /\ guesthouse.has_stair_handrails
  /\ Baseline.cost_breakdown.equipment = 0
  /\ Baseline.cost_breakdown.annual_maintenance
       = C17_Units(guesthouse) + 40

\* C18: compliance_inspection is initial inspection + certification
\* (200 + 150 = 350) when the equipment cost is greater than 0 and 0
\* otherwise; a property whose only deduction is building age (score 90, one
\* issue) has compliance cost 0 and total_one_time 0.
C18_ComplianceFormula ==
  baseline_result # None =>
    /\ Baseline.cost_breakdown.compliance_inspection
         = (IF Baseline.cost_breakdown.equipment > 0 THEN 350 ELSE 0)
    /\ (guesthouse.construction_year < 1990 /\ C2_Deductions(guesthouse) = 10) =>
         /\ Baseline.baseline_score = 90
         /\ Len(Baseline.issues) = 1
         /\ Baseline.cost_breakdown.compliance_inspection = 0
         /\ Baseline.cost_breakdown.total_one_time = 0

\* an old building with nothing else missing
C18_Witness ==
  /\ baseline_result # None
  /\ guesthouse.construction_year < 1990
  /\ C2_Deductions(guesthouse) = 10
  /\ Baseline.cost_breakdown.total_one_time = 0

\* the coating material cost of the claim
C19_Coating(g) ==
  IF g.number_of_floors > 1 /\ ~g.stairs_slip_resistant
  THEN (IF C17_RunsAdded(g) > 0 THEN C17_RunsAdded(g) * 250 ELSE 250)
  ELSE 0

C20_Base(g) ==
  Max(0, g.number_of_floors - g.fire_extinguishers) * 20
  + Max(0, 2 * g.number_of_floors - g.smoke_detectors) * 15
  + Max(0, 2 - g.emergency_exits) * 35
  + C17_RunsAdded(g) * 280
  + (IF g.number_of_floors > 1 /\ ~g.stairs_slip_resistant
     THEN (IF C17_RunsAdded(g) > 0 THEN C17_RunsAdded(g) * 150 ELSE 150)
     ELSE 0)

\* the multiplier of the claim, in tenths
C20_Multiplier(g) ==
  IF g.building_type = "modern" THEN 9
  ELSE IF g.building_type = "renovated" THEN 11 ELSE 10

\* C20: installation_labor is the deficit-weighted sum of the installation
\* unit costs (3.5 m a handrail run, the handrail-dependent coating rule)
\* multiplied by the building-type multiplier and rounded to the nearest
\* integer (at most one half away from the product); it is 0 exactly when no
\* extinguisher, detector, exit, handrail or coating work is needed.
C20_InstallationFormula ==
  baseline_result # None =>
    LET labor == Baseline.cost_breakdown.installation_labor
        product10 == C20_Base(guesthouse) * C20_Multiplier(guesthouse)
    IN  /\ 10 * labor - product10 <= 5
        /\ product10 - 10 * labor <= 5
        /\ (labor = 0) <=> (C20_Base(guesthouse) = 0)

\* a modern house missing one detector: 15 x 0.9 = 13.5, reported 14
C20_Witness ==
  /\ baseline_result # None
  /\ guesthouse.building_type = "modern"
  /\ C20_Base(guesthouse) = 15
  /\ Baseline.cost_breakdown.installation_labor = 14

\* the optional item called name is in the list, with this cost
C21_Listed(name, cost) ==
  \E i \in 1..Len(Baseline.optional_improvements) :
    /\ Baseline.optional_improvements[i].item = name
    /\ Baseline.optional_improvements[i].cost_tnd = cost

\* the optional item called name is in the list
C21_Has(name) ==
  \E i \in 1..Len(Baseline.optional_improvements) :
    Baseline.optional_improvements[i].item = name

\* C21: the optional-improvement list depends only on number_of_floors and
\* number_of_rooms: fire blanket and carbon-monoxide detector always;
\* emergency lighting iff floors > 1, at the per-floor rate x floors; fire
\* alarm iff rooms >= 6; evacuation-plan signage iff floors > 1 or rooms >= 5;
\* two cameras iff rooms >= 4, at the per-camera rate x 2; 2 to 6 items; the
\* list is that of any other property with the same floors and rooms.
C21_OptionalByFloorsAndRooms ==
  baseline_result # None =>
    /\ C21_Listed(<< "Fire blanket" >>, 80)
    /\ C21_Listed(<< "Carbon monoxide detector" >>, 90)
    /\ C21_Has(<< "Emergency lighting" >>) <=> guesthouse.number_of_floors > 1
    /\ C21_Has(<< "Emergency lighting" >>)
         => C21_Listed(<< "Emergency lighting" >>, 120 * guesthouse.number_of_floors)
    /\ C21_Has(<< "Centralized fire alarm system" >>) <=> guesthouse.number_of_rooms >= 6
    /\ C21_Has(<< "Emergency evacuation plan signage" >>)
         <=> (guesthouse.number_of_floors > 1 \/ guesthouse.number_of_rooms >= 5)
    /\ C21_Has(<< "2", "security cameras" >>) <=> guesthouse.number_of_rooms >= 4
    /\ C21_Has(<< "2", "security cameras" >>)
         => C21_Listed(<< "2", "security cameras" >>, 250 * 2)
    /\ Len(Baseline.optional_improvements) >= 2
    /\ Len(Baseline.optional_improvements) <= 6
    /\ Baseline.optional_improvements
         = calculate_baseline_score(
             [Example1 EXCEPT !.number_of_floors = guesthouse.number_of_floors,
                              !.number_of_rooms = guesthouse.number_of_rooms],
             current_year).optional_improvements

\* a deficient single-floor house of six rooms: alarm, signage and cameras,
\* no lighting
C21_Witness ==
  /\ baseline_result # None
  /\ guesthouse.number_of_floors = 1
  /\ guesthouse.number_of_rooms = 6
  /\ Baseline.baseline_score < 50
  /\ Len(Baseline.optional_improvements) = 5

\* the explanation holds this sentence
C22_Says(sentence) ==
  \E i \in 1..Len(Report.explanation) : Report.explanation[i] = sentence

\* C22: whenever the facility risk_adjustment is greater than 0 the
\* explanation names risk_adjustment / 2 facility risk points, the amount
\* calculate_final_score subtracted; it says access to emergency facilities
\* is good only when nothing was subtracted for facilities.
C22_ExplanationNamesHalvedRisk ==
  final_assessment # None =>
    /\ Scores.facility_risk_adjustment > 0 =>
         \E points \in 0..30 :
           /\ 2 * points = Scores.facility_risk_adjustment
           /\ C22_Says(<< "Limited access to emergency facilities adds ", str(points),
                          " risk points to your daily score. " >>)
    /\ C22_Says(<< "Good access to emergency facilities in your area. " >>)
         => Scores.facility_risk_adjustment = 0

\* the number of deduction categories applied to g
C23_Categories(g) ==
  (IF g.construction_year < 1990 THEN 1 ELSE 0)
  + (IF g.fire_extinguishers < g.number_of_floors THEN 1 ELSE 0)
  + (IF g.smoke_detectors < 2 * g.number_of_floors THEN 1 ELSE 0)
  + (IF g.emergency_exits < 2 THEN 1 ELSE 0)
  + (IF g.has_first_aid_kit THEN 0 ELSE 1)
  + (IF g.number_of_floors > 1 /\ ~g.has_stair_handrails THEN 1 ELSE 0)
  + (IF g.number_of_floors > 1 /\ ~g.stairs_slip_resistant THEN 1 ELSE 0)

\* C23: for a baseline without deduction (score 100) the explanation says the
\* baseline safety standards are excellent and names no area requiring
\* improvement; otherwise the number of areas it names is the number of
\* deduction categories applied.
C23_ExplanationCountsIssues ==
  final_assessment # None =>
    IF C23_Categories(guesthouse) = 0
    THEN /\ C22_Says(<< "Your baseline safety standards are excellent. " >>)
         /\ \A n \in 0..7 :
              ~C22_Says(<< "We identified ", str(n), " area(s) requiring improvement. " >>)
    ELSE C22_Says(<< "We identified ", str(C23_Categories(guesthouse)),
                     " area(s) requiring improvement. " >>)

\* the sum of the costs of the optional items from the i-th on
RECURSIVE C24_OptionalFrom(_)
C24_OptionalFrom(i) ==
  IF i > Len(Baseline.optional_improvements) THEN 0
  ELSE Baseline.optional_improvements[i].cost_tnd + C24_OptionalFrom(i + 1)

\* C24: in the report of calculate_final_score minimum_investment =
\* total_one_time_investment = baseline total_one_time;
\* with_optional_improvements = total_one_time + the costs of all optional
\* items; first_year_total = total_one_time + annual_maintenance; every cost
\* figure and the baseline_score equal those of the baseline result.
C24_SummaryFromBaseline ==
  final_assessment # None =>
    LET costs == Report.cost_estimates
        breakdown == Baseline.cost_breakdown
    IN  /\ costs.project_summary.minimum_investment = breakdown.total_one_time
        /\ costs.mandatory_improvements.total_one_time_investment = breakdown.total_one_time
        /\ costs.project_summary.with_optional_improvements
             = breakdown.total_one_time + C24_OptionalFrom(1)
        /\ costs.optional_improvements.total_if_all_implemented = C24_OptionalFrom(1)
        /\ costs.project_summary.first_year_total
             = breakdown.total_one_time + breakdown.annual_maintenance
        /\ costs.mandatory_improvements.equipment_materials = breakdown.equipment
        /\ costs.mandatory_improvements.installation_labor = breakdown.installation_labor
        /\ costs.mandatory_improvements.compliance_inspections
             = breakdown.compliance_inspection
        /\ costs.ongoing_costs.annual_maintenance = breakdown.annual_maintenance
        /\ costs.optional_improvements.items = Baseline.optional_improvements
        /\ Scores.baseline_score = Baseline.baseline_score

\* a report with one-time costs and six optional items
C24_Witness ==
  /\ final_assessment # None
  /\ Baseline.cost_breakdown.total_one_time > 0
  /\ Len(Baseline.optional_improvements) = 6
  /\ Report.cost_estimates.project_summary.with_optional_improvements
       > Report.cost_estimates.project_summary.first_year_total

\* C25: an assessment changes nothing outside its own result: over any
\* sequence of calculate_baseline_score and calculate_final_score calls the
\* cost configuration tables and every attribute of the assessed guesthouse
\* stay as they were, and each result is the one the record, the date and
\* the analyses passed in determine, whatever was assessed before.
C25_AssessmentKeepsFrame ==
  [][ /\ config' = config
      /\ guesthouse' = guesthouse
      /\ baseline_result' # baseline_result =>
           baseline_result' = Some(calculate_baseline_score(guesthouse, current_year))
      /\ (final_assessment' # final_assessment /\ final_assessment' # None) =>
           final_assessment'[1].assessment
             = calculate_final_score(guesthouse, baseline_result[1], weather_analysis[1],
                                     facilities_analysis[1]) ]_vars

\* a second assessment of the record was completed in the same year
C25_Witness ==
  /\ final_assessment # None
  /\ previous_result # None
  /\ previous_result = baseline_result
  /\ config = Config
  /\ Baseline.cost_breakdown.equipment > 0

\* low < medium < high
C26_Rank(level) == IF level = "low" THEN 0 ELSE IF level = "medium" THEN 1 ELSE 2

\* C26: weather and facility data can only lower the score: final_score <=
\* baseline_score, the final risk level is never better than the baseline
\* risk level, and the external deduction is at most 75 points (60 weather +
\* 15 facilities).  final_score is in tenths.
C26_ExternalOnlyLowers ==
  final_assessment # None =>
    /\ Scores.final_score <= 10 * Scores.baseline_score
    /\ C26_Rank(Scores.final_risk_level) >= C26_Rank(Scores.baseline_risk_level)
    /\ 10 * Scores.baseline_score - Scores.final_score <= 750
    /\ 2 * Scores.weather_risk_score + Scores.facility_risk_adjustment <= 150

\* the worst weather and no facility at all take the full 75 points off
C26_Witness ==
  /\ final_assessment # None
  /\ Scores.baseline_score = 100
  /\ Scores.weather_risk_score = 60
  /\ Scores.facility_risk_adjustment = 30
  /\ Scores.final_score = 250
  /\ Scores.baseline_risk_level = "low"
  /\ Scores.final_risk_level = "high"

\* C27: for a single-floor property has_stair_handrails and
\* stairs_slip_resistant have no effect on calculate_baseline_score: the
\* score, issues, recommendations, equipment, installation, compliance,
\* total_one_time and annual_maintenance are those of the same property with
\* any other values of the two flags.
C27_SingleFloorIgnoresStairs ==
  (baseline_result # None /\ guesthouse.number_of_floors = 1) =>
    \A handrails \in BOOLEAN, slip \in BOOLEAN :
      LET other == calculate_baseline_score(
                     [guesthouse EXCEPT !.has_stair_handrails = handrails,
                                        !.stairs_slip_resistant = slip],
                     current_year)
      IN  /\ other.baseline_score = Baseline.baseline_score
          /\ other.issues = Baseline.issues
          /\ other.recommendations = Baseline.recommendations
          /\ other.cost_breakdown = Baseline.cost_breakdown

\* a single-floor property with handrails and without slip resistance
C27_Witness ==
  /\ baseline_result # None
  /\ guesthouse.number_of_floors = 1
  /\ guesthouse.has_stair_handrails
  /\ ~guesthouse.stairs_slip_resistant
  /\ Baseline.cost_breakdown.equipment > 0

\* nothing has to be added to g
C28_NoDeficit(g) ==
  /\ g.fire_extinguishers >= g.number_of_floors
  /\ g.smoke_detectors >= 2 * g.number_of_floors
  /\ g.emergency_exits >= 2
  /\ g.has_first_aid_kit
  /\ g.number_of_floors > 1 => (g.has_stair_handrails /\ g.stairs_slip_resistant)

\* C28: under the default configuration, for every valid property and every
\* building type, total_one_time = equipment + installation_labor +
\* compliance_inspection as reported, and total_one_time = 0 exactly when
\* there is no equipment deficit.
C28_BreakdownConsistent ==
  baseline_result # None =>
    /\ Baseline.cost_breakdown.total_one_time
         = Baseline.cost_breakdown.equipment
           + Baseline.cost_breakdown.installation_labor
           + Baseline.cost_breakdown.compliance_inspection
    /\ (Baseline.cost_breakdown.total_one_time = 0) <=> C28_NoDeficit(guesthouse)

\* a renovated house whose handrail and coating work is priced at 3.5 m a run
\* and whose installation product 1.1 x base is rounded
C28_Witness ==
  /\ baseline_result # None
  /\ guesthouse.building_type = "renovated"
  /\ guesthouse.number_of_floors = 4
  /\ ~guesthouse.has_stair_handrails
  /\ ~guesthouse.stairs_slip_resistant
  /\ (base_installation(guesthouse) * 11) % 10 # 0
  /\ Baseline.cost_breakdown.total_one_time > 0

\* g with exactly the deficits found added
C29_Remediated(g) ==
  [g EXCEPT !.fire_extinguishers = @ + Max(0, g.number_of_floors - @),
            !.smoke_detectors = @ + Max(0, 2 * g.number_of_floors - @),
            !.emergency_exits = @ + Max(0, 2 - @),
            !.has_first_aid_kit = TRUE,
            !.has_stair_handrails = IF g.number_of_floors > 1 THEN TRUE ELSE @,
            !.stairs_slip_resistant = IF g.number_of_floors > 1 THEN TRUE ELSE @]

\* C29: remediation reaches a fixed point: after a valid property is updated
\* by adding exactly the deficits calculate_baseline_score found, re-assessing
\* it yields equipment = installation_labor = compliance_inspection =
\* total_one_time = 0, a baseline_score of 100 (90 if built before 1990) and
\* the annual_maintenance predicted by the assessment made before the update.
C29_RemediationFixedPoint ==
  baseline_result # None =>
    LET after == calculate_baseline_score(C29_Remediated(guesthouse), current_year)
    IN  /\ after.cost_breakdown.equipment = 0
        /\ after.cost_breakdown.installation_labor = 0
        /\ after.cost_breakdown.compliance_inspection = 0
        /\ after.cost_breakdown.total_one_time = 0
        /\ after.baseline_score = (IF guesthouse.construction_year < 1990 THEN 90 ELSE 100)
        /\ after.cost_breakdown.annual_maintenance
             = Baseline.cost_breakdown.annual_maintenance

\* a four-floor house that lacked everything
C29_Witness ==
  /\ baseline_result # None
  /\ guesthouse.number_of_floors = 4
  /\ guesthouse.fire_extinguishers = 0
  /\ guesthouse.smoke_detectors = 0
  /\ guesthouse.emergency_exits = 0
  /\ ~guesthouse.has_first_aid_kit
  /\ ~guesthouse.has_stair_handrails
  /\ ~guesthouse.stairs_slip_resistant
  /\ C29_Remediated(guesthouse).smoke_detectors = 8
  /\ Baseline.cost_breakdown.total_one_time > 0

\* the building type create_guesthouse is to store for a body
C30_TypeFor(data) ==
  IF data["building_type"] \in {JString("modern"), JString("traditional"),
                                JString("renovated")}
  THEN data["building_type"].s
  ELSE "traditional"

\* C30: after any sequence of create_guesthouse and update_guesthouse
\* requests the stored building_type of every guesthouse is one of modern,
\* traditional, renovated: create maps a missing, null or unrecognised value
\* to 'traditional', and update never changes building_type (a building_type
\* field in an update body is ignored).
C30_BuildingTypeSetAtCreate ==
  [][ \A id \in Ids :
        store'[id] # None =>
          /\ store'[id][1].building_type \in {"modern", "traditional", "renovated"}
          /\ store[id] # None =>
               store'[id][1].building_type = store[id][1].building_type
          /\ store[id] = None =>
               \A data \in CreateBodies :
                 LET created == create_guesthouse(store, store'[id][1].owner_id,
                                                  data, id).store[id]
                 IN  created # None =>
                       created[1].building_type = C30_TypeFor(data)
    ]_vars

\* the owner of a traditional guesthouse has sent an update whose body names
\* it "Renamed" and asks for building_type modern: the answer is 200 and the
\* row is renamed and still traditional
C30_Witness ==
  /\ request # None
  /\ request[1].route = "update_guesthouse"
  /\ answer # None
  /\ answer[1].status = 200
  /\ store[request[1].id] # None
  /\ store[request[1].id][1].name = "Renamed"
  /\ store[request[1].id][1].building_type = "traditional"
  /\ \E id \in Ids :
       /\ store[id] # None
       /\ store[id][1].building_type = "modern"

====
